---- MODULE Spec2Model ----
(***************************************************************************)
(* Model of the scheduled-event reconciler of automaton_scheduler.py: the  *)
(* schedule tracker (registry), the commands create, register,             *)
(* match-videos and classify (specification Spec), and of the batch run of *)
(* automaton.py: the timestamp resolver, the heuristic classifier and the  *)
(* loop that renames and moves videos (specification BatchSpec). The video *)
(* platform is the environment: its answers (status codes, the video       *)
(* listing, a video's current title) are inputs of the commands.           *)
(*                                                                         *)
(* Strings the code takes apart or searches (titles, times, descriptions,  *)
(* uris) are sequences of chunks; a chunk is an atomic piece of text.      *)
(* Strings the code only compares (ids, event types, dates) are atoms.     *)
(***************************************************************************)
EXTENDS Integers, Sequences, FiniteSets, TLC

\* events, out: the schedule tracker and the report of the last command
\*   (automaton_scheduler.py).
\* pc, videos_to_check, checked, counts: the batch run of automaton.py: where
\*   main() is, the videos its loop has still to check, what the loop did with
\*   the video it checked last, and the counters of the summary.
VARIABLES events, out, pc, videos_to_check, checked, counts

scheduler_vars == <<events, out>>
batch_vars == <<pc, videos_to_check, checked, counts>>
vars == <<events, out, pc, videos_to_check, checked, counts>>

\* ---------------------------------------------------------------- bounds
MaxEvents == 2

\* ------------------------------------------------------- configuration
None == "None"

TEST_EVENT_TYPES ==
  [t \in {"Test Service A", "Test Service B", "Test Class Alpha",
          "Test Class Beta", "Test Special Event"} |->
     CASE t = "Test Service A" ->
            [folder_destination |-> "Worship Services", typical_duration_minutes |-> 60]
       [] t = "Test Service B" ->
            [folder_destination |-> "Worship Services", typical_duration_minutes |-> 90]
       [] t = "Test Class Alpha" ->
            [folder_destination |-> "Scott's Classes", typical_duration_minutes |-> 45]
       [] t = "Test Class Beta" ->
            [folder_destination |-> "The Root Class", typical_duration_minutes |-> 60]
       [] OTHER ->
            [folder_destination |-> "Weddings and Memorials", typical_duration_minutes |-> 120]]

DESTINATION_FOLDERS ==
  [f \in {"Worship Services", "Weddings and Memorials", "Scott's Classes", "The Root Class"} |->
     CASE f = "Worship Services" -> "15749517"
       [] f = "Weddings and Memorials" -> "2478125"
       [] f = "Scott's Classes" -> "15680946"
       [] OTHER -> "10606776"]

\* ------------------------------------------------------------- inputs
\* Command-line arguments (--type, --date, --time) the commands are run with.
Time0930 == <<"09", ":", "30">>
Time1030 == <<"10", ":", "30">>
Time2500 == <<"25", ":", "00">>

BaseArgs == <<"Test Service A", "2024-12-07", Time0930>>

ArgInputs ==
  { BaseArgs,
    <<"Test Class Beta", "2024-12-07", Time0930>>,
    <<"Test Service Z", "2024-12-07", Time0930>>,
    <<"Test Service A", "2024-13-07", Time0930>>,
    <<"Test Service A", "2024-12-07", Time2500>> }

\* Video ids on the platform (--video-id, the uris of the listing) and the
\* --event-id values of register, which are video ids too.
IdInputs == {"1", "2"}
EventIdInputs == {"1"}

\* The "uri" of the platform's answer to the create call; Missing: no "uri" key.
Missing == <<"<missing>">>

\* ------------------------------------------------------------ strings
Last(s) == s[Len(s)]

\* str.replace(old, "") on a chunked string
Remove(s, old) == SelectSeq(s, LAMBDA c : c # old)

\* needle in haystack (Python's substring test)
Contains(haystack, needle) ==
  \E i \in 1..(Len(haystack) - Len(needle) + 1) :
     SubSeq(haystack, i, i + Len(needle) - 1) = needle

\* datetime.strptime(f"{date} {time}", "%Y-%m-%d %H:%M") raises ValueError
DateParts ==
  [d \in {"2024-12-07", "2024-12-08", "2024-13-07"} |->
     CASE d = "2024-12-07" -> <<2024, 12, 7>>
       [] d = "2024-12-08" -> <<2024, 12, 8>>
       [] OTHER -> <<2024, 13, 7>>]

Num == [c \in {"00", "09", "10", "25", "30"} |->
          CASE c = "00" -> 0 [] c = "09" -> 9 [] c = "10" -> 10 [] c = "25" -> 25 [] OTHER -> 30]

\* (a parser that looks at the shape only and not at the ranges of the fields)
ParsesDateTimeShapeOnly(date, time) ==
  /\ date \in DOMAIN DateParts
  /\ Len(time) = 3
  /\ time[2] = ":"
  /\ time[1] \in DOMAIN Num
  /\ time[3] \in DOMAIN Num

ParsesDateTime(date, time) ==
  /\ date \in DOMAIN DateParts
  /\ DateParts[date][2] \in 1..12
  /\ DateParts[date][3] \in 1..31
  /\ Len(time) = 3
  /\ time[2] = ":"
  /\ time[1] \in DOMAIN Num /\ Num[time[1]] \in 0..23
  /\ time[3] \in DOMAIN Num /\ Num[time[3]] \in 0..59

\* ------------------------------------------------- metadata and titles
\* json.dumps of a dict: a JSON object text, its key/value pairs in insertion order.
JsonObject(pairs) == [kind |-> "object", pairs |-> pairs]

JsonDumpsClassification(c) ==
  JsonObject(<< <<"event_type", c.event_type>>,
                <<"scheduled_date", c.scheduled_date>>,
                <<"scheduled_time", c.scheduled_time>>,
                <<"folder_destination", c.folder_destination>>,
                <<"expected_duration_minutes", c.expected_duration_minutes>> >>)

JsonDumps(m) ==
  JsonObject(<< <<"classification", JsonDumpsClassification(m.classification)>>,
                <<"generated_by", m.generated_by>>,
                <<"version", m.version>> >>)

create_classification_metadata(event_type, scheduled_date, scheduled_time) ==
  LET known == event_type \in DOMAIN TEST_EVENT_TYPES
      metadata ==
        [classification |->
           [event_type |-> event_type,
            scheduled_date |-> scheduled_date,
            scheduled_time |-> scheduled_time,
            folder_destination |->
              IF known THEN TEST_EVENT_TYPES[event_type].folder_destination ELSE "Unknown",
            expected_duration_minutes |->
              IF known THEN TEST_EVENT_TYPES[event_type].typical_duration_minutes ELSE 60],
         generated_by |-> "automaton_scheduler",
         version |-> "1.0"]
      description ==
        << <<"text", "Scheduled Event: ", event_type>>, <<"nl">>,
           <<"text", "Date: ", scheduled_date>>, <<"nl">>,
           <<"text", "Time: ", scheduled_time>>, <<"nl">>,
           <<"nl">>,
           <<"text", "--- CLASSIFICATION METADATA (DO NOT EDIT) ---">>, <<"nl">>,
           <<"AUTOMATON_METADATA:">>, <<"json", JsonDumps(metadata)>> >>
  IN [description |-> description, metadata |-> metadata]

create_event_title(event_type, scheduled_date, scheduled_time) ==
  <<scheduled_date, " - ">> \o Remove(scheduled_time, ":") \o <<" - ", event_type>>

\* ------------------------------------------------------------- state
NoOut == [cmd |-> "none", code |-> "none", saved |-> FALSE, matched_count |-> 0,
          rename |-> "none", move |-> "none"]

Outcome(cmd, code, saved) ==
  [cmd |-> cmd, code |-> code, saved |-> saved, matched_count |-> 0,
   rename |-> "none", move |-> "none"]

\* What a command leaves behind: the registry (as saved, or untouched) and its report.
Done(evs, report) == [events |-> evs, out |-> report]

\* A command runs to its end in one step.
Run(result) == events' = result.events /\ out' = result.out /\ UNCHANGED batch_vars

\* The batch run before main() is called.
NoReport == [step |-> "none"]

NoCounts == [scanned_count |-> 0, processed_count |-> 0, updated_count |-> 0, moved_count |-> 0]

BatchIdle ==
  /\ pc = "idle"
  /\ videos_to_check = <<>>
  /\ checked = NoReport
  /\ counts = NoCounts

Init ==
  /\ events = <<>>
  /\ out = NoOut
  /\ BatchIdle

\* ------------------------------------------------------------ create
CreatedEntry(uri, type, date, time) ==
  [id |-> IF uri # <<>> THEN Last(uri) ELSE "unknown",
   uri |-> uri,
   event_type |-> type,
   title |-> create_event_title(type, date, time),
   scheduled_date |-> date,
   scheduled_time |-> time,
   folder_destination |-> TEST_EVENT_TYPES[type].folder_destination,
   status |-> "scheduled",
   archived_video_id |-> None,
   classification_complete |-> FALSE,
   metadata |-> create_classification_metadata(type, date, time).metadata,
   manually_registered |-> FALSE]

cmd_create_event(evs, a, force, dry_run, past, me_status, post_status, uri_response) ==
  LET type == a[1]
      date == a[2]
      time == a[3]
      event_uri == IF uri_response = Missing THEN <<"unknown">> ELSE uri_response
  IN
  IF type \notin DOMAIN TEST_EVENT_TYPES
    THEN Done(evs, Outcome("create", "unknown_type", FALSE))
  ELSE IF ~ParsesDateTime(date, time)
    THEN Done(evs, Outcome("create", "invalid_datetime", FALSE))
  ELSE IF past /\ ~force
    THEN Done(evs, Outcome("create", "in_the_past", FALSE))
  ELSE IF dry_run
    THEN Done(evs, Outcome("create", "dry_run", FALSE))
  ELSE IF me_status # 200
    THEN Done(evs, Outcome("create", "no_connection", FALSE))
  ELSE IF post_status \notin {200, 201}
    THEN Done(evs, Outcome("create", "create_failed", FALSE))
  ELSE Done(Append(evs, CreatedEntry(event_uri, type, date, time)),
            Outcome("create", "created", TRUE))

\* The situations a create command runs in: its flags and the platform's answers.
CreateEnv(force, dry_run, past, me_status, post_status, uri_response) ==
  [force |-> force, dry_run |-> dry_run, past |-> past,
   me_status |-> me_status, post_status |-> post_status, uri_response |-> uri_response]

PlainCreate == CreateEnv(FALSE, FALSE, FALSE, 200, 201, <<"", "live_events", "1">>)

CreateEnvs ==
  { PlainCreate,
    CreateEnv(FALSE, FALSE, FALSE, 200, 201, Missing),
    CreateEnv(TRUE, FALSE, TRUE, 200, 200, <<"", "live_events", "1">>),
    CreateEnv(FALSE, FALSE, TRUE, 200, 201, <<"", "live_events", "1">>),
    CreateEnv(FALSE, TRUE, FALSE, 200, 201, <<"", "live_events", "1">>),
    CreateEnv(FALSE, FALSE, FALSE, 401, 201, <<"", "live_events", "1">>),
    CreateEnv(FALSE, FALSE, FALSE, 200, 403, <<"", "live_events", "1">>) }

\* Arguments that pass validation are tried in every situation, the others in
\* the plain one: validation comes first and does not look at the situation.
Validates(a) == a[1] \in DOMAIN TEST_EVENT_TYPES /\ ParsesDateTime(a[2], a[3])

CreateInputs ==
  { <<a, e>> : a \in { x \in ArgInputs : Validates(x) }, e \in CreateEnvs }
  \cup { <<a, PlainCreate>> : a \in { x \in ArgInputs : ~Validates(x) } }

CreateEvent ==
  \E i \in CreateInputs :
     /\ Len(events) < MaxEvents
     /\ Run(cmd_create_event(events, i[1], i[2].force, i[2].dry_run, i[2].past,
                             i[2].me_status, i[2].post_status, i[2].uri_response))

\* ---------------------------------------------------------- register
RegisteredEntry(event_id, type, date, time) ==
  [id |-> event_id,
   uri |-> <<"", "videos", event_id>>,
   event_type |-> type,
   title |-> create_event_title(type, date, time),
   scheduled_date |-> date,
   scheduled_time |-> time,
   folder_destination |-> TEST_EVENT_TYPES[type].folder_destination,
   status |-> "registered",
   archived_video_id |-> event_id,
   classification_complete |-> FALSE,
   metadata |-> create_classification_metadata(type, date, time).metadata,
   manually_registered |-> TRUE]

HasId(evs, event_id) == \E i \in 1..Len(evs) : evs[i].id = event_id

\* Mutant of RemoveId: the filter keeps the entries it should drop.
RemoveIdInverted(evs, event_id) == SelectSeq(evs, LAMBDA e : e.id = event_id)

\* schedule["events"] = [e for e in schedule["events"] if e.get("id") != args.event_id]
RemoveId(evs, event_id) == SelectSeq(evs, LAMBDA e : e.id # event_id)

\* Mutant of RegisterResult: the existing entry is not removed before the append.
RegisterResultKeepsPrior(evs, event_id, type, date, time) ==
  Append(evs, RegisteredEntry(event_id, type, date, time))

RegisterResult(evs, event_id, type, date, time) ==
  Append(IF HasId(evs, event_id) THEN RemoveId(evs, event_id) ELSE evs,
         RegisteredEntry(event_id, type, date, time))

cmd_register_event(evs, a, event_id, force, dry_run, skip_verify, verify_status) ==
  LET type == a[1]
      date == a[2]
      time == a[3]
  IN
  IF type \notin DOMAIN TEST_EVENT_TYPES
    THEN Done(evs, Outcome("register", "unknown_type", FALSE))
  ELSE IF ~ParsesDateTime(date, time)
    THEN Done(evs, Outcome("register", "invalid_datetime", FALSE))
  ELSE IF dry_run
    THEN Done(evs, Outcome("register", "dry_run", FALSE))
  ELSE IF ~skip_verify /\ verify_status # 200 /\ ~force
    THEN Done(evs, Outcome("register", "not_verified", FALSE))
  ELSE IF HasId(evs, event_id) /\ ~force
    THEN Done(evs, Outcome("register", "duplicate", FALSE))
  ELSE Done(RegisterResult(evs, event_id, type, date, time),
            Outcome("register", IF HasId(evs, event_id) THEN "replaced" ELSE "registered",
                    TRUE))

\* The situations a register command runs in.
RegisterEnv(force, dry_run, skip_verify, verify_status) ==
  [force |-> force, dry_run |-> dry_run, skip_verify |-> skip_verify,
   verify_status |-> verify_status]

PlainRegister == RegisterEnv(FALSE, FALSE, FALSE, 200)

RegisterEnvs ==
  { PlainRegister,
    RegisterEnv(FALSE, FALSE, TRUE, 404),
    RegisterEnv(FALSE, FALSE, FALSE, 404),
    RegisterEnv(TRUE, FALSE, FALSE, 404),
    RegisterEnv(FALSE, TRUE, FALSE, 200) }

RegisterInputs ==
  { <<a, e>> : a \in { x \in ArgInputs : Validates(x) }, e \in RegisterEnvs }
  \cup { <<a, PlainRegister>> : a \in { x \in ArgInputs : ~Validates(x) } }

RegisterEvent ==
  \E i \in RegisterInputs, event_id \in EventIdInputs :
     /\ Len(events) < MaxEvents \/ HasId(events, event_id)
     /\ Run(cmd_register_event(events, i[1], event_id, i[2].force, i[2].dry_run,
                               i[2].skip_verify, i[2].verify_status))

\* ------------------------------------------------------ match-videos
\* json.loads of a JSON object text: a dict (the last pair of a key wins).
JsonLoads(text) ==
  LET pairs == text.pairs
      keys == { pairs[i][1] : i \in 1..Len(pairs) }
  IN [k \in keys |->
        pairs[CHOOSE i \in 1..Len(pairs) :
                /\ pairs[i][1] = k
                /\ \A j \in (i+1)..Len(pairs) : pairs[j][1] # k][2]]

IsMarker(chunk) == chunk[1] = "AUTOMATON_METADATA:"
IsNewline(chunk) == chunk[1] = "nl"

\* "AUTOMATON_METADATA:" in description
HasMarker(description) == \E i \in 1..Len(description) : IsMarker(description[i])

\* description.split("AUTOMATON_METADATA:")[1]
AfterMarker(description) ==
  LET first == CHOOSE i \in 1..Len(description) :
                 IsMarker(description[i]) /\ \A j \in 1..(i-1) : ~IsMarker(description[j])
      later == { j \in (first+1)..Len(description) : IsMarker(description[j]) }
      stop == IF later = {} THEN Len(description)
              ELSE (CHOOSE j \in later : \A k \in later : j <= k) - 1
  IN SubSeq(description, first + 1, stop)

\* str.strip(): the newlines at both ends go
Strip(s) ==
  LET body == { i \in 1..Len(s) : ~IsNewline(s[i]) }
  IN IF body = {} THEN <<>>
     ELSE SubSeq(s, CHOOSE i \in body : \A k \in body : i <= k,
                    CHOOSE i \in body : \A k \in body : i >= k)

\* metadata_str.split("\n")[0]
FirstLine(s) ==
  LET breaks == { i \in 1..Len(s) : IsNewline(s[i]) }
  IN IF breaks = {} THEN s
     ELSE SubSeq(s, 1, (CHOOSE i \in breaks : \A k \in breaks : i <= k) - 1)

\* json.loads(metadata_str): "error" (JSONDecodeError), or the kind of JSON value
\* read ("object": a dict) and, for an object,
\* embedded_metadata.get("classification", {}).
ParseMetadata(description) ==
  LET metadata_str == FirstLine(Strip(AfterMarker(description)))
  IN IF Len(metadata_str) # 1 \/ metadata_str[1][1] # "json"
       THEN [kind |-> "error"]
  ELSE IF metadata_str[1][2].kind # "object"
       THEN [kind |-> metadata_str[1][2].kind]
     ELSE LET embedded_metadata == JsonLoads(metadata_str[1][2])
          IN [kind |-> "object",
              classification |->
                IF "classification" \in DOMAIN embedded_metadata
                  THEN JsonLoads(embedded_metadata["classification"])
                  ELSE JsonLoads(JsonObject(<<>>))]

\* event.get(key) == classification.get(key); every entry has the key
SameField(event, classification, key) ==
  key \in DOMAIN classification /\ classification[key] = event[key]

\* Mutant of MetadataMatches: the date is not compared.
MetadataMatchesIgnoringDate(event, classification) ==
  /\ SameField(event, classification, "scheduled_time")
  /\ SameField(event, classification, "event_type")

MetadataMatches(event, classification) ==
  /\ SameField(event, classification, "scheduled_date")
  /\ SameField(event, classification, "scheduled_time")
  /\ SameField(event, classification, "event_type")

\* Mutant of TitleMatches: an entry that already has a link is passed over.
TitleMatchesUnlinked(event, video_name) ==
  event.title # <<>> /\ Contains(video_name, event.title) /\ event.archived_video_id = None

TitleMatches(event, video_name) ==
  event.title # <<>> /\ Contains(video_name, event.title)

\* `for event in events: if <condition>: ...; break`: the index at which the
\* loop breaks, given the indices that satisfy the condition; 0 if it runs to
\* the end.
FirstIndex(hits) ==
  IF hits = {} THEN 0 ELSE CHOOSE i \in hits : \A j \in hits : i <= j

Link(event, video_id) ==
  [event EXCEPT !.archived_video_id = video_id, !.status = "archived"]

\* One iteration of `for video in videos`; run is [events, matched_count, crashed].
MatchVideo(run, video) ==
  LET video_id == Last(video.uri)
      description == video.description
      parsed == ParseMetadata(description)
  IN
  IF run.crashed THEN run
  ELSE IF HasMarker(description) THEN
    CASE parsed.kind = "error" -> run
      [] parsed.kind = "object" ->
           LET c == parsed.classification
               i == FirstIndex({ k \in 1..Len(run.events) : MetadataMatches(run.events[k], c) })
           IN IF i = 0 THEN run
              ELSE [run EXCEPT !.events[i] = Link(run.events[i], video_id),
                               !.matched_count = run.matched_count + 1]
      [] OTHER -> [run EXCEPT !.crashed = TRUE]
  ELSE
    LET i == FirstIndex({ k \in 1..Len(run.events) : TitleMatches(run.events[k], video.name) })
    IN IF i # 0 /\ run.events[i].archived_video_id = None
         THEN [run EXCEPT !.events[i] = Link(run.events[i], video_id),
                          !.matched_count = run.matched_count + 1]
         ELSE run

RECURSIVE MatchLoop(_, _)
MatchLoop(run, listing) ==
  IF listing = <<>> THEN run
  ELSE MatchLoop(MatchVideo(run, Head(listing)), Tail(listing))

MatchRun(evs, listing) ==
  MatchLoop([events |-> evs, matched_count |-> 0, crashed |-> FALSE], listing)

cmd_match_videos(evs, listing, me_status, list_status) ==
  LET run == MatchRun(evs, listing)
  IN
  IF evs = <<>>
    THEN Done(evs, Outcome("match", "no_events", FALSE))
  ELSE IF me_status # 200
    THEN Done(evs, Outcome("match", "no_connection", FALSE))
  ELSE IF list_status # 200
    THEN Done(evs, Outcome("match", "fetch_failed", FALSE))
  ELSE IF run.crashed
    THEN Done(evs, Outcome("match", "crashed", FALSE))
  ELSE IF run.matched_count > 0
    THEN Done(run.events,
              [Outcome("match", "matched", TRUE) EXCEPT !.matched_count = run.matched_count])
  ELSE Done(evs, Outcome("match", "no_new_matches", FALSE))

\* The videos the platform may list: uri, name and description. A missing or
\* null description reads as the empty one (`video.get("description", "") or ""`).
Video(id, name, description) ==
  [uri |-> <<"", "videos", id>>, name |-> name, description |-> description]

NameUntitled == <<"Untitled">>
NameArchive == <<"Archive of ">> \o create_event_title(BaseArgs[1], BaseArgs[2], BaseArgs[3])
NameBoth == create_event_title("Test Class Beta", "2024-12-07", Time0930) \o <<" / ">>
              \o create_event_title(BaseArgs[1], BaseArgs[2], BaseArgs[3])

PayloadOf(type, date, time) == create_classification_metadata(type, date, time).description

\* Videos that link an entry when the registry has one for them, ...
LinkingKinds ==
  { <<NameUntitled, PayloadOf(BaseArgs[1], BaseArgs[2], BaseArgs[3])>>,
    <<NameBoth, <<>> >>,
    <<NameArchive, PayloadOf("Test Class Beta", "2024-12-07", Time0930)
                     \o << <<"nl">>, <<"text", "edited on the platform">> >> >> }

\* ... a video whose payload is not a JSON object, ...
BrokenKind == <<NameUntitled, << <<"AUTOMATON_METADATA:">>, <<"json", [kind |-> "number"]>> >> >>

\* ... and videos that link nothing: a payload for a date no entry has, and a
\* payload that is not JSON, both under a name that contains an entry's title.
VideoKinds ==
  LinkingKinds \cup {BrokenKind}
  \cup { <<NameArchive, PayloadOf("Test Service A", "2024-12-08", Time0930)>>,
         <<NameArchive, << <<"AUTOMATON_METADATA:">>, <<"text", "{not json">> >> >> }

\* Listings, newest first: one video of any kind, or two videos that interact
\* (both can link, or the second one breaks the run after the first linked).
Listings ==
  {<<>>}
  \cup { <<Video(i, k[1], k[2])>> : i \in IdInputs, k \in VideoKinds }
  \cup { <<Video("1", k[1], k[2]), Video("2", l[1], l[2])>> :
           k \in LinkingKinds, l \in LinkingKinds \cup {BrokenKind} }

\* The platform's answers to a match-videos run: /me, /me/videos and the listing.
MatchEnvs ==
  { <<200, 200, l>> : l \in Listings }
  \cup { <<401, 200, <<>> >>, <<200, 500, <<>> >> }

MatchVideos ==
  \E e \in MatchEnvs : Run(cmd_match_videos(events, e[3], e[1], e[2]))

\* ---------------------------------------------------------- classify
\* correct_title = f"{date} - {time} - {event_type}"
CorrectTitle(event) ==
  <<event.scheduled_date, " - ">> \o Remove(event.scheduled_time, ":")
     \o <<" - ", event.event_type>>

\* `for event in events: if archived_video_id == video_id or id == video_id`:
\* the index of the first such entry, 0 when there is none.
FindEvent(evs, video_id) ==
  FirstIndex({ k \in 1..Len(evs) :
                 evs[k].archived_video_id = video_id \/ evs[k].id = video_id })

cmd_classify(evs, video_id, apply, fetch_status, current_title, rename_status, me_ok, move_status) ==
  LET i == FindEvent(evs, video_id)
      matching_event == evs[i]
      correct_title == CorrectTitle(matching_event)
      rename == IF current_title = correct_title THEN "already_correct"
                ELSE IF rename_status \in {200, 204} THEN "renamed" ELSE "failed"
      folder_name == matching_event.folder_destination
      Result(code, saved, mv) ==
        [Outcome("classify", code, saved) EXCEPT !.rename = rename, !.move = mv]
  IN
  IF i = 0
    THEN Done(evs, Outcome("classify", "not_found", FALSE))
  ELSE IF ~apply
    THEN Done(evs, Outcome("classify", "preview", FALSE))
  ELSE IF fetch_status # 200
    THEN Done(evs, Outcome("classify", "fetch_failed", FALSE))
  ELSE IF folder_name \notin DOMAIN DESTINATION_FOLDERS
    THEN Done(evs, Result("no_folder", FALSE, "none"))
  ELSE IF ~me_ok
    THEN Done(evs, Result("crashed", FALSE, "none"))
  ELSE IF move_status = 204
    THEN Done([evs EXCEPT ![i].classification_complete = TRUE, ![i].status = "classified"],
              Result("classified", TRUE, "moved"))
  ELSE Done(evs, Result("move_failed", FALSE, "failed"))

\* The situations a classify command runs in: --apply and the platform's
\* answers, among them the video's current title (a canonical title or not).
ClassifyEnv(apply, fetch_status, current_title, rename_status, me_ok, move_status) ==
  [apply |-> apply, fetch_status |-> fetch_status, current_title |-> current_title,
   rename_status |-> rename_status, me_ok |-> me_ok, move_status |-> move_status]

CanonicalBase == create_event_title(BaseArgs[1], BaseArgs[2], BaseArgs[3])

ClassifyEnvs ==
  { ClassifyEnv(FALSE, 200, NameUntitled, 200, TRUE, 204),
    ClassifyEnv(TRUE, 404, NameUntitled, 200, TRUE, 204),
    ClassifyEnv(TRUE, 200, NameUntitled, 200, TRUE, 204),
    ClassifyEnv(TRUE, 200, NameUntitled, 500, TRUE, 204),
    ClassifyEnv(TRUE, 200, NameUntitled, 204, TRUE, 403),
    ClassifyEnv(TRUE, 200, NameUntitled, 500, TRUE, 500),
    ClassifyEnv(TRUE, 200, NameUntitled, 200, FALSE, 204),
    ClassifyEnv(TRUE, 200, CanonicalBase, 200, TRUE, 204),
    ClassifyEnv(TRUE, 200, CanonicalBase, 200, TRUE, 403) }

Classify ==
  \E video_id \in IdInputs, e \in ClassifyEnvs :
     Run(cmd_classify(events, video_id, e.apply, e.fetch_status, e.current_title,
                      e.rename_status, e.me_ok, e.move_status))

Next == CreateEvent \/ RegisterEvent \/ MatchVideos \/ Classify

Spec == Init /\ [][Next]_vars

\* ==================================================================
\* automaton.py: the batch run
\* ==================================================================

\* ------------------------------------------------------- configuration
LOOKBACK_HOURS == 72

DEBUG_MODE == TRUE

\* service name -> window; a Python dict is walked in insertion order
SATURDAY_SERVICE_WINDOW ==
  << [service_name |-> <<"Traditional", " ", "5:30 PM">>, start |-> <<18, 15>>, end |-> <<21, 0>>] >>

SUNDAY_SERVICE_WINDOWS ==
  << [service_time |-> <<"9:30 AM">>, start |-> <<10, 15>>, end |-> <<11, 0>>],
     [service_time |-> <<"11:00 AM">>, start |-> <<11, 45>>, end |-> <<13, 30>>] >>

ROOT_CLASS_WINDOWS ==
  [d \in {"Monday", "Sunday"} |->
     IF d = "Monday" THEN [start |-> <<19, 0>>, end |-> <<21, 0>>]
                     ELSE [start |-> <<10, 15>>, end |-> <<11, 0>>]]

EXCLUDED_FOLDER_IDS == {"11103430", "182762", "8219992"}

\* DESTINATION_FOLDERS of automaton.py (category -> folder id)
CATEGORY_FOLDERS ==
  [c \in {"Worship Services", "Weddings and Memorials", "Scott's Classes", "The Root Class"} |->
     CASE c = "Worship Services" -> "15749517"
       [] c = "Weddings and Memorials" -> "2478125"
       [] c = "Scott's Classes" -> "15680946"
       [] OTHER -> "10606776"]

\* ----------------------------------------------------------------- time
\* An instant is a day number and a clock time. Day d is the d-th of December
\* 2024 (day 0: 30 November); seconds play no part in the code.
Days == 0..9

Instant(day, hour, minute) == [day |-> day, hour |-> hour, minute |-> minute]

\* A timestamp field of a video record: absent (no key, null or ""), text
\* that datetime.fromisoformat rejects, or an instant in UTC.
Absent == [kind |-> "absent"]
Garbage == [kind |-> "garbage"]
Utc(day, hour, minute) == [kind |-> "time", day |-> day, hour |-> hour, minute |-> minute]

\* dt.astimezone(America/Chicago): in December the zone is six hours behind UTC.
UtcOffsetMinutes == 360

AsLocal(t) ==
  LET m == t.hour * 60 + t.minute - UtcOffsetMinutes
  IN IF m >= 0 THEN Instant(t.day, m \div 60, m % 60)
     ELSE Instant(t.day - 1, (m + 1440) \div 60, (m + 1440) % 60)

\* dt.weekday(): Monday is 0, Sunday is 6; 1 December 2024 is a Sunday.
Weekday(dt) == (dt.day + 5) % 7

\* dt - timedelta(days=1)
DayBefore(dt) == [dt EXCEPT !.day = dt.day - 1]

\* date.strftime("%Y-%m-%d")
DateStrings ==
  [d \in Days |->
     CASE d = 0 -> "2024-11-30" [] d = 1 -> "2024-12-01" [] d = 2 -> "2024-12-02"
       [] d = 3 -> "2024-12-03" [] d = 4 -> "2024-12-04" [] d = 5 -> "2024-12-05"
       [] d = 6 -> "2024-12-06" [] d = 7 -> "2024-12-07" [] d = 8 -> "2024-12-08"
       [] OTHER -> "2024-12-09"]

Strftime(day) == DateStrings[day]

\* (a window that leaves its end minute out)
is_time_in_window_end_exclusive(dt, start_tuple, end_tuple) ==
  LET time_minutes == dt.hour * 60 + dt.minute
      start_minutes == start_tuple[1] * 60 + start_tuple[2]
      end_minutes == end_tuple[1] * 60 + end_tuple[2]
  IN start_minutes <= time_minutes /\ time_minutes < end_minutes

is_time_in_window(dt, start_tuple, end_tuple) ==
  LET time_minutes == dt.hour * 60 + dt.minute
      start_minutes == start_tuple[1] * 60 + start_tuple[2]
      end_minutes == end_tuple[1] * 60 + end_tuple[2]
  IN start_minutes <= time_minutes /\ time_minutes <= end_minutes

\* ------------------------------------------------- timestamp resolver
\* The resolver returns (dt, source) or raises: fromisoformat on rejected
\* text (caught for release_time only), video_data["created_time"] on a
\* missing key, None.replace on a null.
Resolved(dt, source) == [kind |-> "ok", dt |-> dt, source |-> source]
Raises == [kind |-> "raises"]
NotResolved == [kind |-> "none"]

get_best_timestamp_modified_last(video_data) ==
  IF video_data.release_time.kind = "time"
    THEN Resolved(AsLocal(video_data.release_time), "release_time")
  ELSE IF video_data.created_time.kind = "time"
    THEN Resolved(AsLocal(video_data.created_time), "created_time")
  ELSE IF video_data.modified_time.kind = "time"
    THEN Resolved(AsLocal(video_data.modified_time), "modified_time")
  ELSE Raises

get_best_timestamp(video_data) ==
  IF video_data.release_time.kind = "time"
    THEN Resolved(AsLocal(video_data.release_time), "release_time")
  ELSE IF video_data.modified_time.kind = "garbage"
    THEN Raises
  ELSE IF video_data.modified_time.kind = "time"
    THEN Resolved(AsLocal(video_data.modified_time), "modified_time")
  ELSE IF video_data.created_time.kind = "time"
    THEN Resolved(AsLocal(video_data.created_time), "created_time")
  ELSE Raises

\* ------------------------------------------------------------- titles
\* A title is a sequence of chunks: words, " " between words, " - ", a date.
\* str.lower() chunk by chunk
LowerChunks ==
  [c \in {"The", "Root", "Class", "Worship", "Service", "Traditional", "Contemporary",
          "Memorial", "Wedding", "Capture", "Piro", "Hall", "Scott", "Sunday",
          "Celebration", "Staff", "Meeting", "Bible", "Smith", "5:30 PM", "9:30 AM",
          "11:00 AM"} |->
     CASE c = "The" -> "the" [] c = "Root" -> "root" [] c = "Class" -> "class"
       [] c = "Worship" -> "worship" [] c = "Service" -> "service"
       [] c = "Traditional" -> "traditional" [] c = "Contemporary" -> "contemporary"
       [] c = "Memorial" -> "memorial" [] c = "Wedding" -> "wedding"
       [] c = "Capture" -> "capture" [] c = "Piro" -> "piro" [] c = "Hall" -> "hall"
       [] c = "Scott" -> "scott" [] c = "Sunday" -> "sunday"
       [] c = "Celebration" -> "celebration" [] c = "Staff" -> "staff"
       [] c = "Meeting" -> "meeting" [] c = "Bible" -> "bible" [] c = "Smith" -> "smith"
       [] c = "5:30 PM" -> "5:30 pm" [] c = "9:30 AM" -> "9:30 am"
       [] OTHER -> "11:00 am"]

Lower(title) ==
  [i \in 1..Len(title) |->
     IF title[i] \in DOMAIN LowerChunks THEN LowerChunks[title[i]] ELSE title[i]]

\* re.sub(r"^\d{4}-\d{2}-\d{2} - ", "", current_title)
IsDateChunk(c) == \E d \in Days : c = DateStrings[d]

\* (no prefix removed)
KeepDatePrefix(title) == title

StripDatePrefix(title) ==
  IF Len(title) >= 2 /\ IsDateChunk(title[1]) /\ title[2] = " - "
    THEN SubSeq(title, 3, Len(title))
    ELSE title

\* --------------------------------------------------------- classifier
\* Steps 2 to 5 of process_video: from the current title and the resolved
\* time to category_folder_name and final_title_suffix (None and None when no
\* rule sets them; None is the empty text here, falsy as in Python).
NoSuffix == <<>>

Ruling(rule, category_folder_name, final_title_suffix) ==
  [rule |-> rule, category_folder_name |-> category_folder_name,
   final_title_suffix |-> final_title_suffix]

\* `for name, window in windows.items(): if is_time_in_window(...): ... break`
FirstWindow(windows, dt) ==
  FirstIndex({ i \in 1..Len(windows) :
                 is_time_in_window(dt, windows[i].start, windows[i].end) })

\* (a category set without its suffix outside the window)
RootClassRulePartial(day_of_week, reference_time) ==
  IF day_of_week = 0
    THEN IF is_time_in_window(reference_time, ROOT_CLASS_WINDOWS["Monday"].start,
                              ROOT_CLASS_WINDOWS["Monday"].end)
           THEN Ruling("root", "The Root Class", <<"The", " ", "Root", " ", "Class">>)
           ELSE Ruling("root", "The Root Class", NoSuffix)
  ELSE IF day_of_week = 6
    THEN IF is_time_in_window(reference_time, ROOT_CLASS_WINDOWS["Sunday"].start,
                              ROOT_CLASS_WINDOWS["Sunday"].end)
           THEN Ruling("root", "The Root Class",
                       <<"0930", " - ", "The", " ", "Root", " ", "Class">>)
           ELSE Ruling("root", "The Root Class", NoSuffix)
  ELSE Ruling("root", None, NoSuffix)

RootClassRule(day_of_week, reference_time) ==
  IF day_of_week = 0
    THEN IF is_time_in_window(reference_time, ROOT_CLASS_WINDOWS["Monday"].start,
                              ROOT_CLASS_WINDOWS["Monday"].end)
           THEN Ruling("root", "The Root Class", <<"The", " ", "Root", " ", "Class">>)
           ELSE Ruling("root", None, NoSuffix)
  ELSE IF day_of_week = 6
    THEN IF is_time_in_window(reference_time, ROOT_CLASS_WINDOWS["Sunday"].start,
                              ROOT_CLASS_WINDOWS["Sunday"].end)
           THEN Ruling("root", "The Root Class",
                       <<"0930", " - ", "The", " ", "Root", " ", "Class">>)
           ELSE Ruling("root", None, NoSuffix)
  ELSE Ruling("root", None, NoSuffix)

WeddingOrMemorial(rule) ==
  Ruling(rule, "Weddings and Memorials",
         <<"Memorial", " ", "or", " ", "Wedding", " ", "Service">>)

\* (the Saturday and the Sunday test taken for each other)
WorshipRuleDaysSwapped(day_of_week, reference_time, service_type) ==
  IF day_of_week = 6 /\ FirstWindow(SATURDAY_SERVICE_WINDOW, reference_time) # 0
    THEN Ruling("worship", "Worship Services",
                <<"Worship", " ", "Service", " - ", "Traditional", " ", "5:30 PM">>)
  ELSE IF day_of_week = 6
    THEN Ruling("worship", None, NoSuffix)
  ELSE IF day_of_week = 5 /\ FirstWindow(SUNDAY_SERVICE_WINDOWS, reference_time) # 0
    THEN Ruling("worship", "Worship Services",
                <<"Worship", " ", "Service", " - ", service_type, " ", "9:30 AM">>)
  ELSE WeddingOrMemorial("worship")

\* (no rule for the days without services)
WorshipRuleServiceDaysOnly(day_of_week, reference_time, service_type) ==
  IF day_of_week = 5 /\ FirstWindow(SATURDAY_SERVICE_WINDOW, reference_time) # 0
    THEN Ruling("worship", "Worship Services",
                <<"Worship", " ", "Service", " - ", "Traditional", " ", "5:30 PM">>)
  ELSE IF day_of_week = 6 /\ FirstWindow(SUNDAY_SERVICE_WINDOWS, reference_time) = 1
    THEN Ruling("worship", "Worship Services",
                <<"Worship", " ", "Service", " - ", service_type, " ", "9:30 AM">>)
  ELSE IF day_of_week = 6 /\ FirstWindow(SUNDAY_SERVICE_WINDOWS, reference_time) = 2
    THEN Ruling("worship", "Worship Services",
                <<"Worship", " ", "Service", " - ", service_type, " ", "11:00 AM">>)
  ELSE IF day_of_week = 6
    THEN WeddingOrMemorial("worship")
  ELSE Ruling("worship", None, NoSuffix)

WorshipRule(day_of_week, reference_time, service_type) ==
  IF day_of_week = 5
    THEN LET w == FirstWindow(SATURDAY_SERVICE_WINDOW, reference_time)
         IN IF w # 0
              THEN Ruling("worship", "Worship Services",
                          <<"Worship", " ", "Service", " - ">>
                            \o SATURDAY_SERVICE_WINDOW[w].service_name)
              ELSE Ruling("worship", None, NoSuffix)
  ELSE IF day_of_week = 6
    THEN LET w == FirstWindow(SUNDAY_SERVICE_WINDOWS, reference_time)
         IN IF w # 0
              THEN Ruling("worship", "Worship Services",
                          <<"Worship", " ", "Service", " - ", service_type, " ">>
                            \o SUNDAY_SERVICE_WINDOWS[w].service_time)
              ELSE WeddingOrMemorial("worship")
  ELSE WeddingOrMemorial("worship")

ROOT_KEYWORDS ==
  { <<"capture", " - ", "piro", " ", "hall">>, <<"the", " ", "root", " ", "class">>, <<"root">> }

WORSHIP_KEYWORDS == { <<"worship">>, <<"contemporary">>, <<"traditional">> }

HasAny(video_title_lower, keywords) == \E k \in keywords : Contains(video_title_lower, k)

\* The `if / elif` chain of step 5.
Rules(video_title_lower, original_title, day_of_week, reference_time) ==
  IF HasAny(video_title_lower, ROOT_KEYWORDS)
    THEN RootClassRule(day_of_week, reference_time)
  ELSE IF HasAny(video_title_lower, WORSHIP_KEYWORDS)
    THEN WorshipRule(day_of_week, reference_time,
                     IF Contains(video_title_lower, <<"contemporary">>)
                       THEN "Contemporary" ELSE "Traditional")
  ELSE IF HasAny(video_title_lower, { <<"memorial">>, <<"wedding">> })
    THEN WeddingOrMemorial("memorial")
  ELSE IF \/ Contains(video_title_lower, <<"scott">>)
          \/ (Contains(video_title_lower, <<"class">>) /\ ~Contains(video_title_lower, <<"root">>))
    THEN Ruling("scott", "Scott's Classes", original_title)
  ELSE Ruling("none", None, NoSuffix)

\* Sunday before 6 AM with "worship" or "traditional" in the title: the
\* previous day is used for the classification.
RollsOver(video_title_lower, resolved_time) ==
  /\ Weekday(resolved_time) = 6
  /\ resolved_time.hour < 6
  /\ (Contains(video_title_lower, <<"worship">>) \/ Contains(video_title_lower, <<"traditional">>))

\* Steps 2 to 6 up to the proposed title, one operator per step; each step
\* hands its values to the next.
\* Step 6: `if category_folder_name and final_title_suffix`, new_title.
Proposed(ruling, reference_time, rolls) ==
  [rule |-> ruling.rule,
   category_folder_name |-> ruling.category_folder_name,
   final_title_suffix |-> ruling.final_title_suffix,
   reference_time |-> reference_time,
   day_of_week |-> Weekday(reference_time),
   service_date |-> reference_time.day,
   rolled_over |-> rolls,
   classified |-> ruling.category_folder_name # None /\ ruling.final_title_suffix # <<>>,
   new_title |-> IF ruling.category_folder_name # None /\ ruling.final_title_suffix # <<>>
                   THEN <<Strftime(reference_time.day), " - ">> \o ruling.final_title_suffix
                   ELSE <<>>]

\* Step 5 on the day and time of step 3.
Ruled(original_title, video_title_lower, reference_time, rolls) ==
  Proposed(Rules(video_title_lower, original_title, Weekday(reference_time), reference_time),
           reference_time, rolls)

\* Step 3: service_date, day_of_week and the adjustment to the previous day.
Dated(original_title, video_title_lower, resolved_time) ==
  IF RollsOver(video_title_lower, resolved_time)
    THEN Ruled(original_title, video_title_lower, DayBefore(resolved_time), TRUE)
    ELSE Ruled(original_title, video_title_lower, resolved_time, FALSE)

\* Step 2: video_title_lower
Lowered(original_title_for_categorization, resolved_time) ==
  Dated(original_title_for_categorization, Lower(original_title_for_categorization),
        resolved_time)

Classification(current_title, resolved_time) ==
  Lowered(StripDatePrefix(current_title), resolved_time)

\* ------------------------------------------------------- process_video
\* What process_video did with a video: how it ended, its stats, the resolved
\* timestamp, the classification and the rename and move calls it issued.
\*   rename: not_attempted | already_correct | accepted | rejected | raised
\*   move:   not_attempted | moved | rejected | raised
Processed(step, video_data, resolved, classification, rename, move, title_updated, moved) ==
  [step |-> step, video |-> video_data, resolved |-> resolved,
   classification |-> classification, rename |-> rename, move |-> move,
   stats |-> [title_updated |-> title_updated, moved |-> moved]]

NoClassification == [rule |-> "none", classified |-> FALSE]

\* rename_answer: what client.patch does: "ok" (a 2xx response), "error" (a
\*   response with another status; the code does not look at it), "raises".
\* move_answer: what GET /me and the PUT do: "204", "error" (another
\*   status), "raises" (an exception in either call).
\* `# Move to the correct folder`
MoveVideo(video_data, resolved, c, rename, title_updated, move_answer) ==
  IF c.category_folder_name \notin DOMAIN CATEGORY_FOLDERS
    THEN Processed("processed", video_data, resolved, c, rename, "not_attempted", title_updated, FALSE)
  ELSE IF move_answer = "204"
    THEN Processed("processed", video_data, resolved, c, rename, "moved", title_updated, TRUE)
  ELSE IF move_answer = "error"
    THEN Processed("processed", video_data, resolved, c, rename, "rejected", title_updated, FALSE)
  ELSE Processed("processed", video_data, resolved, c, rename, "raised", title_updated, FALSE)

\* (step 6 without its `if category_folder_name and final_title_suffix`)
RenameAndMoveUnguarded(video_data, resolved, c, rename_answer, move_answer) ==
  IF video_data.name = c.new_title
    THEN MoveVideo(video_data, resolved, c, "already_correct", FALSE, move_answer)
  ELSE IF rename_answer = "raises"
    THEN Processed("processed", video_data, resolved, c, "raised", "not_attempted", FALSE, FALSE)
  ELSE MoveVideo(video_data, resolved, c, IF rename_answer = "ok" THEN "accepted" ELSE "rejected",
                 TRUE, move_answer)

\* `# --- 6. Rename and Move ---`
RenameAndMove(video_data, resolved, c, rename_answer, move_answer) ==
  IF ~c.classified
    THEN Processed("processed", video_data, resolved, c, "not_attempted", "not_attempted",
                   FALSE, FALSE)
  ELSE IF video_data.name = c.new_title
    THEN MoveVideo(video_data, resolved, c, "already_correct", FALSE, move_answer)
  ELSE IF rename_answer = "raises"
    THEN Processed("processed", video_data, resolved, c, "raised", "not_attempted", FALSE, FALSE)
  ELSE MoveVideo(video_data, resolved, c, IF rename_answer = "ok" THEN "accepted" ELSE "rejected",
                 TRUE, move_answer)

ClassifyResolved(video_data, resolved, rename_answer, move_answer) ==
  IF resolved.kind = "raises"
    THEN Processed("raised", video_data, resolved, NoClassification,
                   "not_attempted", "not_attempted", FALSE, FALSE)
    ELSE RenameAndMove(video_data, resolved, Classification(video_data.name, resolved.dt),
                       rename_answer, move_answer)

process_video(video_data, debug_only, rename_answer, move_answer) ==
  IF debug_only
    THEN Processed("debug_only", video_data, NotResolved, NoClassification,
                   "not_attempted", "not_attempted", FALSE, FALSE)
    ELSE ClassifyResolved(video_data, get_best_timestamp(video_data), rename_answer, move_answer)

\* ---------------------------------------------------------------- main
\* A video record of the listing: uri, name, the three timestamp fields,
\* is_playable and parent_folder (None, or the folder's id).
VideoRecord(uri, name, release_time, modified_time, created_time, is_playable, parent_folder) ==
  [uri |-> uri, name |-> name, release_time |-> release_time,
   modified_time |-> modified_time, created_time |-> created_time,
   is_playable |-> is_playable, parent_folder |-> parent_folder]

Minutes(t) == t.day * 1440 + t.hour * 60 + t.minute

\* The loop of get_recent_videos over the listing (newest first): a video
\* without modified_time is passed over, the first video older than the
\* lookback window ends the loop, and so does an exception (rejected
\* text), which the function catches.
\* (a loop that stops at a video without modified_time instead of passing over it)
EndsLoopOnAbsent(video, start_minutes) ==
  \/ video.modified_time.kind \in {"garbage", "absent"}
  \/ (video.modified_time.kind = "time" /\ Minutes(video.modified_time) < start_minutes)

EndsLoop(video, start_minutes) ==
  \/ video.modified_time.kind = "garbage"
  \/ (video.modified_time.kind = "time" /\ Minutes(video.modified_time) < start_minutes)

RecentFrom(videos, start_minutes) ==
  LET stop == FirstIndex({ i \in 1..Len(videos) : EndsLoop(videos[i], start_minutes) })
      walked == IF stop = 0 THEN videos ELSE SubSeq(videos, 1, stop - 1)
  IN SelectSeq(walked, LAMBDA v : v.modified_time.kind = "time")

get_recent_videos(listing, request_ok, now_utc) ==
  IF request_ok THEN RecentFrom(listing, Minutes(now_utc) - LOOKBACK_HOURS * 60)
  ELSE <<>>

\* One pass of the `for video in videos_to_check` loop: what was done with
\* the video, and the counters after it. An exception of process_video is not
\* caught by main.
Skipped(why, video) == [step |-> why, video |-> video]

Count(cts, title_updated, moved) ==
  [cts EXCEPT !.processed_count = @ + 1,
              !.updated_count = IF title_updated THEN @ + 1 ELSE @,
              !.moved_count = IF moved THEN @ + 1 ELSE @]

\* `processed_count += 1; stats = process_video(client, video)` and the two
\* counters of its stats, which an exception leaves alone.
Counted(cts, p) ==
  IF p.step = "raised"
    THEN [checked |-> p, counts |-> [cts EXCEPT !.processed_count = @ + 1]]
    ELSE [checked |-> p, counts |-> Count(cts, p.stats.title_updated, p.stats.moved)]

\* (debug mode handing a video of a destination folder to the full processing)
check_video_debug_processes(video, cts, debug_mode, rename_answer, move_answer) ==
  IF ~video.is_playable
    THEN [checked |-> Skipped("not_playable", video), counts |-> cts]
  ELSE IF video.parent_folder # None /\ video.parent_folder \in EXCLUDED_FOLDER_IDS
    THEN [checked |-> Skipped("excluded_folder", video), counts |-> cts]
  ELSE IF video.parent_folder # None
    THEN IF \E c \in DOMAIN CATEGORY_FOLDERS : CATEGORY_FOLDERS[c] = video.parent_folder
           THEN IF debug_mode
                  THEN Counted(cts, process_video(video, FALSE, rename_answer, move_answer))
                  ELSE [checked |-> Skipped("destination_folder", video), counts |-> cts]
           ELSE [checked |-> Skipped("other_folder", video), counts |-> cts]
  ELSE Counted(cts, process_video(video, FALSE, rename_answer, move_answer))

check_video(video, cts, debug_mode, rename_answer, move_answer) ==
  IF ~video.is_playable
    THEN [checked |-> Skipped("not_playable", video), counts |-> cts]
  ELSE IF video.parent_folder # None /\ video.parent_folder \in EXCLUDED_FOLDER_IDS
    THEN [checked |-> Skipped("excluded_folder", video), counts |-> cts]
  ELSE IF video.parent_folder # None
    THEN IF \E c \in DOMAIN CATEGORY_FOLDERS : CATEGORY_FOLDERS[c] = video.parent_folder
           THEN IF debug_mode
                  THEN [checked |-> process_video(video, TRUE, rename_answer, move_answer),
                        counts |-> Count(cts, FALSE, FALSE)]
                  ELSE [checked |-> Skipped("destination_folder", video), counts |-> cts]
           ELSE [checked |-> Skipped("other_folder", video), counts |-> cts]
  ELSE Counted(cts, process_video(video, FALSE, rename_answer, move_answer))

\* --------------------------------------------------------------- inputs
MaxVideos == 2

\* The UTC instant of a local clock time (the platform reports UTC).
FromLocal(day, hour, minute) ==
  IF hour + 6 >= 24 THEN Utc(day + 1, hour + 6 - 24, minute) ELSE Utc(day, hour + 6, minute)

\* Monday 2 December to Sunday 8 December 2024, at the edges of the windows
\* and of the early-morning cutoff.
LocalDays == 2..8

ClockTimes ==
  { <<0, 45>>, <<5, 59>>, <<6, 0>>, <<10, 14>>, <<10, 15>>, <<10, 40>>, <<11, 0>>, <<11, 1>>,
    <<11, 44>>, <<11, 45>>, <<13, 30>>, <<13, 31>>, <<18, 14>>, <<18, 15>>, <<18, 59>>,
    <<19, 0>>, <<21, 0>>, <<21, 1>> }

TimeInputs == { FromLocal(d, t[1], t[2]) : d \in LocalDays, t \in ClockTimes }

TitleInputs ==
  { <<"Sunday", " ", "Worship">>,
    <<"Traditional", " ", "worship">>,
    <<"Contemporary", " ", "Service">>,
    <<"Worship", " ", "Celebration">>,
    <<"The", " ", "Root", " ", "Class">>,
    <<"Capture", " - ", "Piro", " ", "Hall">>,
    <<"Root", " ", "Worship">>,
    <<"Smith", " ", "Memorial">>,
    <<"Scott", "'s", " ", "Class">>,
    <<"Staff", " ", "Meeting">>,
    <<"2024-12-01", " - ", "Sunday", " ", "Worship">> }

\* Videos in the Team Library root, playable, finished at the given time.
Fresh(name, t) == VideoRecord("1", name, Absent, t, t, TRUE, None)

FreshVideos == { Fresh(name, t) : name \in TitleInputs, t \in TimeInputs }

\* The same videos after a rename to the proposed title, at the same time.
Renamed(video) ==
  [video EXCEPT !.name = Classification(video.name, AsLocal(video.modified_time)).new_title]

RenamedVideos ==
  { Renamed(v) : v \in { w \in FreshVideos :
                           Classification(w.name, AsLocal(w.modified_time)).classified } }

\* Records that differ in which timestamp fields they carry.
FieldInputs(t) == { Absent, Garbage, t }

ResolverVideos ==
  { VideoRecord("2", <<"Sunday", " ", "Worship">>, r, m, c, TRUE, None) :
      r \in FieldInputs(FromLocal(8, 10, 40)) \cup {FromLocal(8, 11, 45)},
      m \in FieldInputs(FromLocal(8, 13, 31)) \cup {FromLocal(7, 18, 15)},
      c \in FieldInputs(FromLocal(8, 10, 14)) \cup {FromLocal(7, 18, 14)} }

\* Videos that are not playable or lie in a folder.
Placed(is_playable, parent_folder) ==
  VideoRecord("3", <<"Sunday", " ", "Worship">>, Absent, FromLocal(8, 10, 40),
              FromLocal(8, 10, 40), is_playable, parent_folder)

PlacedVideos ==
  { Placed(FALSE, None), Placed(TRUE, "182762"), Placed(FALSE, "182762"),
    Placed(TRUE, "15749517"), Placed(TRUE, "999") }

\* Listings of one video, and of up to MaxVideos videos among a few.
PairInputs ==
  PlacedVideos
    \cup { Fresh(<<"Sunday", " ", "Worship">>, FromLocal(8, 10, 40)),
           Fresh(<<"Staff", " ", "Meeting">>, FromLocal(8, 10, 40)),
           Fresh(<<"Smith", " ", "Memorial">>, FromLocal(7, 10, 40)) }
    \cup { v \in ResolverVideos : v.release_time.kind # "time" /\ v.created_time.kind = "absent" }

\* The platform sorts the listing by modified_time, newest first.
NewestFirst(listing) ==
  \A i, j \in 1..Len(listing) :
     (i < j /\ listing[i].modified_time.kind = "time" /\ listing[j].modified_time.kind = "time")
     => Minutes(listing[i].modified_time) >= Minutes(listing[j].modified_time)

BatchListings ==
  { <<>> } \cup { <<v>> : v \in FreshVideos \cup RenamedVideos \cup ResolverVideos \cup PlacedVideos }
    \cup { l \in UNION { [1..n -> PairInputs] : n \in 2..MaxVideos } : NewestFirst(l) }

NowInputs == { Utc(4, 12, 0), Utc(7, 12, 0), Utc(9, 12, 0) }

AnswerInputs == { <<"ok", "204">>, <<"ok", "error">>, <<"ok", "raises">>,
                  <<"error", "204">>, <<"raises", "204">> }

\* -------------------------------------------------------------- actions
\* main() up to the loop: the credentials check, GET /me, get_recent_videos.
Fetched(listing, request_ok, now_utc) ==
  [step |-> "fetched", listing |-> listing, request_ok |-> request_ok, now_utc |-> now_utc]

StartBatch ==
  /\ pc = "idle"
  /\ \E configured \in BOOLEAN, me_status \in {200, 401}, request_ok \in BOOLEAN,
        now_utc \in NowInputs, listing \in BatchListings :
       /\ \A i \in 1..Len(listing) :
             listing[i].modified_time.kind = "time"
               => Minutes(listing[i].modified_time) <= Minutes(now_utc)
       /\ IF ~configured \/ me_status # 200
            THEN /\ pc' = "returned"
                 /\ UNCHANGED <<videos_to_check, checked, counts>>
            ELSE /\ pc' = "loop"
                 /\ videos_to_check' = get_recent_videos(listing, request_ok, now_utc)
                 /\ checked' = Fetched(listing, request_ok, now_utc)
                 /\ counts' = [NoCounts EXCEPT !.scanned_count = Len(videos_to_check')]
  /\ UNCHANGED scheduler_vars

\* One pass of the loop. An exception of process_video ends main.
Looped(r) ==
  /\ checked' = r.checked
  /\ counts' = r.counts
  /\ videos_to_check' = Tail(videos_to_check)
  /\ pc' = IF r.checked.step = "raised" THEN "crashed" ELSE "loop"

CheckVideo ==
  /\ pc = "loop"
  /\ videos_to_check # <<>>
  /\ \E answers \in AnswerInputs :
       Looped(check_video(Head(videos_to_check), counts, DEBUG_MODE, answers[1], answers[2]))
  /\ UNCHANGED scheduler_vars

\* The summary after the loop.
Summary ==
  /\ pc = "loop"
  /\ videos_to_check = <<>>
  /\ pc' = "finished"
  /\ UNCHANGED <<videos_to_check, checked, counts>>
  /\ UNCHANGED scheduler_vars

BatchInit ==
  /\ events = <<>>
  /\ out = NoOut
  /\ BatchIdle

BatchNext == StartBatch \/ CheckVideo \/ Summary

BatchSpec == BatchInit /\ [][BatchNext]_vars

\* The timestamp resolver on its own: a video record is drawn and
\* get_best_timestamp is applied to it, whatever its fields.
ResolverInit ==
  /\ events = <<>>
  /\ out = NoOut
  /\ pc = "resolver"
  /\ videos_to_check \in { <<v>> : v \in ResolverVideos }
  /\ checked = NoReport
  /\ counts = NoCounts

ResolveTimestamp ==
  /\ pc = "resolver"
  /\ videos_to_check # <<>>
  /\ checked' = [step |-> "resolved", video |-> Head(videos_to_check),
                 resolved |-> get_best_timestamp(Head(videos_to_check))]
  /\ videos_to_check' = Tail(videos_to_check)
  /\ UNCHANGED <<pc, counts>>
  /\ UNCHANGED scheduler_vars

ResolverNext == ResolveTimestamp

ResolverSpec == ResolverInit /\ [][ResolverNext]_vars

\* ============================================================ properties
Indices(evs) == 1..Len(evs)
Ids(evs) == { evs[i].id : i \in Indices(evs) }
Entries(evs) == { evs[i] : i \in Indices(evs) }
Triple(event) == <<event.event_type, event.scheduled_date, event.scheduled_time>>
ValidArgs == { a \in ArgInputs : Validates(a) }

\* C1: a match-videos or classify step never moves an event's status backward:
\* a classified event stays classified, an archived event stays archived or
\* becomes classified.
C1_StatusNeverMovesBackward ==
  [][out'.cmd \in {"match", "classify"} =>
       \A i \in Indices(events) :
          /\ events[i].status = "classified" => events'[i].status = "classified"
          /\ events[i].status = "archived" =>
                events'[i].status \in {"archived", "classified"}]_vars

\* C2: a match-videos step never relinks an event: an event linked to video A
\* keeps archived_video_id = A whatever other video matches it in the run.
C2_LinkedEventIsNeverRelinked ==
  [][out'.cmd = "match" =>
       \A i \in Indices(events) :
          events[i].archived_video_id # None =>
             events'[i].archived_video_id = events[i].archived_video_id]_vars

\* C3: running match-videos a second time over the same listing and the
\* registry the first run produced changes no entry, counts no match as new
\* and does not write the registry.
C3_MatchIsIdempotent ==
  \A listing \in Listings :
     LET first == cmd_match_videos(events, listing, 200, 200)
         second == cmd_match_videos(first.events, listing, 200, 200)
     IN /\ second.events = first.events
        /\ second.out.matched_count = 0
        /\ ~second.out.saved

\* C4: a classify step makes an event classified (classification_complete
\* true) only if the rename succeeded or the title was already correct, and the
\* move succeeded.
C4_ClassifiedOnlyWhenRenameAndMoveConfirmed ==
  [][out'.cmd = "classify" =>
       \A i \in Indices(events) :
          (/\ events'[i].status = "classified" /\ events'[i].classification_complete
           /\ ~(events[i].status = "classified" /\ events[i].classification_complete))
          => (out'.rename \in {"renamed", "already_correct"} /\ out'.move = "moved")]_vars

\* C5: an event becomes classified only from archived: a classify or
\* match-videos step that makes an entry classified finds it archived, and
\* create and register add no classified entry.
C5_ClassifiedOnlyThroughArchived ==
  [][/\ out'.cmd \in {"match", "classify"} =>
          \A i \in Indices(events) :
             (events'[i].status = "classified" /\ events[i].status # "classified")
             => events[i].status = "archived"
     /\ out'.cmd \in {"create", "register"} =>
          \A e \in Entries(events') : e.status = "classified" => e \in Entries(events)]_vars

\* C6: registering an id that is already in the registry, without --force,
\* fails and leaves the registry as it was; with --force the registry then
\* holds exactly one entry with that id and all its fields are those of the new
\* registration.
C6_DuplicateRegistration ==
  \A a \in ValidArgs, event_id \in EventIdInputs, e \in RegisterEnvs :
     LET r == cmd_register_event(events, a, event_id, e.force, e.dry_run, e.skip_verify,
                                 e.verify_status)
         same == { i \in Indices(r.events) : r.events[i].id = event_id }
     IN (HasId(events, event_id) /\ ~e.dry_run) =>
          IF ~e.force
            THEN /\ r.events = events
                 /\ ~r.out.saved
                 /\ r.out.code \in {"duplicate", "not_verified"}
            ELSE /\ Cardinality(same) = 1
                 /\ \A i \in same :
                      /\ r.events[i].event_type = a[1]
                      /\ r.events[i].scheduled_date = a[2]
                      /\ r.events[i].scheduled_time = a[3]
                      /\ r.events[i].title = create_event_title(a[1], a[2], a[3])
                      /\ r.events[i].folder_destination = TEST_EVENT_TYPES[a[1]].folder_destination
                      /\ r.events[i].status = "registered"
                      /\ r.events[i].archived_video_id = event_id
                      /\ r.events[i].classification_complete = FALSE
                      /\ r.events[i].manually_registered = TRUE
                      /\ r.events[i].metadata.classification.event_type = a[1]
                      /\ r.events[i].metadata.classification.scheduled_date = a[2]
                      /\ r.events[i].metadata.classification.scheduled_time = a[3]

\* A forced re-registration has replaced an entry.
C6_Witness ==
  /\ out.cmd = "register" /\ out.code = "replaced"
  /\ Cardinality({ i \in Indices(events) : events[i].id \in EventIdInputs }) = 1

\* C7: no two entries of the registry have the same id.
C7_IdsAreUnique ==
  \A i \in Indices(events), j \in Indices(events) :
     i # j => events[i].id # events[j].id

PayloadArgs ==
  ValidArgs \cup { <<"Test Service A", "2024-12-08", Time0930>>,
                   <<"Test Service A", "2024-12-07", Time1030>> }

VideoNames == {NameUntitled, NameBoth}

C9_MetadataMatchIsExact ==
  \A a \in PayloadArgs, name \in VideoNames, id \in IdInputs :
     LET video == Video(id, name, PayloadOf(a[1], a[2], a[3]))
         r == cmd_match_videos(events, <<video>>, 200, 200)
         identical == { i \in Indices(events) : Triple(events[i]) = a }
     IN /\ \A i \in Indices(events) : r.events[i] # events[i] => i \in identical
        /\ identical = {} => (r.events = events /\ r.out.matched_count = 0)
        /\ identical # {} =>
             \E i \in identical : /\ r.events[i].archived_video_id = id
                                  /\ r.events[i].status = "archived"

\* A match-videos run has linked the second entry by its payload and left the
\* first entry, whose title the video's name contains, alone.
C9_Witness ==
  /\ out.cmd = "match" /\ out.code = "matched"
  /\ Len(events) = 2
  /\ Triple(events[1]) = BaseArgs /\ events[1].status = "scheduled"
  /\ events[2].event_type = "Test Class Beta" /\ events[2].status = "archived"

\* C10: a video without payload is matched against the entries in registry
\* order and the first entry whose title its name contains is the match: no
\* other entry changes, and that entry is linked only if it has no link yet.
C10_TitleFallbackFirstMatchWins ==
  \A name \in VideoNames, id \in IdInputs :
     LET r == cmd_match_videos(events, <<Video(id, name, <<>>)>>, 200, 200)
         hits == { i \in Indices(events) : Contains(name, events[i].title) }
     IN /\ r.out.matched_count <= 1
        /\ hits = {} => r.events = events
        /\ \A f \in hits :
             (\A k \in hits : f <= k) =>
                /\ \A i \in Indices(events) : i # f => r.events[i] = events[i]
                /\ r.events[f] =
                     IF events[f].archived_video_id = None
                       THEN [events[f] EXCEPT !.archived_video_id = id, !.status = "archived"]
                       ELSE events[f]

\* A match-videos run has acted on a registry with two entries whose titles
\* the same video name contains: the first is linked, the second is not.
C10_Witness ==
  /\ out.cmd = "match" /\ out.code = "matched"
  /\ Len(events) = 2
  /\ Contains(NameBoth, events[1].title) /\ Contains(NameBoth, events[2].title)
  /\ events[1].title # events[2].title
  /\ events[1].status = "archived"
  /\ events[2].status = "scheduled"
\* C11: for every video id, classify resolves an entry only if the id is the
\* linked video id of an entry (otherwise it reports that no event was found),
\* and for every entry linked to the video the title it derives is the title
\* stored for that entry and the destination is that entry's folder.
C11_ClassifyResolvesTheLinkedEntry ==
  \A video_id \in IdInputs :
     LET i == FindEvent(events, video_id)
         linked == { k \in Indices(events) : events[k].archived_video_id = video_id }
         preview == cmd_classify(events, video_id, FALSE, 200, NameUntitled, 200, TRUE, 204)
     IN /\ linked = {} => (i = 0 /\ preview.out.code = "not_found")
        /\ \A k \in linked :
              /\ i # 0
              /\ CorrectTitle(events[i]) = events[k].title
              /\ events[i].folder_destination = events[k].folder_destination

\* C12: create and register run with an event type outside the known set, or
\* with a date or time that does not parse (month 13, hour 25), fail with the
\* input error, whatever the flags and the platform's answers, and leave the
\* registry as it was, unwritten.
WrongArgs ==
  { <<"Test Service Z", "2024-12-07", Time0930>>,
    <<"Test Service A", "2024-13-07", Time0930>>,
    <<"Test Service A", "2024-12-07", Time2500>> }

InputError(a) == IF a[1] = "Test Service Z" THEN "unknown_type" ELSE "invalid_datetime"

C12_InputErrorsFailFast ==
  \A a \in WrongArgs :
     /\ \A e \in CreateEnvs :
           LET r == cmd_create_event(events, a, e.force, e.dry_run, e.past, e.me_status,
                                     e.post_status, e.uri_response)
           IN r.events = events /\ ~r.out.saved /\ r.out.code = InputError(a)
     /\ \A e \in RegisterEnvs, event_id \in IdInputs :
           LET r == cmd_register_event(events, a, event_id, e.force, e.dry_run,
                                       e.skip_verify, e.verify_status)
           IN r.events = events /\ ~r.out.saved /\ r.out.code = InputError(a)

\* A create or register command has failed on its input while the registry
\* held an entry.
C12_Witness ==
  /\ out.cmd \in {"create", "register"}
  /\ out.code \in {"unknown_type", "invalid_datetime"}
  /\ Len(events) > 0

\* C13: the resolver returns the release time when the record has one,
\* otherwise the modified time when it has one, otherwise the created time,
\* in local time and with the name of the field; so with modified_time absent
\* and created_time present (and no release time) it is created_time.
\* (Text in modified_time that is no timestamp is not a case of the claim.)
Present(field) == field.kind = "time"

C13_ResolverPriority ==
  checked.step = "resolved" =>
     LET v == checked.video
     IN (Present(v.release_time) \/ v.modified_time.kind # "garbage") =>
          IF Present(v.release_time)
            THEN checked.resolved = Resolved(AsLocal(v.release_time), "release_time")
          ELSE IF Present(v.modified_time)
            THEN checked.resolved = Resolved(AsLocal(v.modified_time), "modified_time")
          ELSE Present(v.created_time) =>
                 checked.resolved = Resolved(AsLocal(v.created_time), "created_time")

\* The resolver has been applied to a record with created_time only and
\* has answered Sunday 8 December 10:14 local, from created_time.
C13_Witness ==
  /\ checked.step = "resolved"
  /\ checked.video.release_time = Absent
  /\ checked.video.modified_time = Absent
  /\ checked.video.created_time = FromLocal(8, 10, 14)
  /\ checked.resolved = Resolved(Instant(8, 10, 14), "created_time")

\* C14: for a record with none of the three timestamps (all absent) the
\* resolver raises;
\* the batch run passes over such a record when it collects the videos to
\* check, collects the other videos as if the record were not in the listing,
\* and never ends on the resolver's exception.
Timeless(v) == v.release_time = Absent /\ v.modified_time = Absent /\ v.created_time = Absent

WithoutTimeless(listing) == SelectSeq(listing, LAMBDA v : ~Timeless(v))

C14_TimelessRecordIsSkipped ==
  /\ \A v \in ResolverVideos : Timeless(v) => get_best_timestamp(v) = Raises
  /\ pc # "crashed"
  /\ \A i \in 1..Len(videos_to_check) : ~Timeless(videos_to_check[i])
  /\ checked.step = "fetched" =>
        videos_to_check =
          get_recent_videos(WithoutTimeless(checked.listing), checked.request_ok, checked.now_utc)

\* The listing began with a record without timestamps and the run has passed
\* over it and collected the video after it.
C14_Witness ==
  /\ checked.step = "fetched"
  /\ Len(checked.listing) = 2
  /\ Timeless(checked.listing[1])
  /\ checked.listing[1].modified_time = Absent
  /\ videos_to_check = <<checked.listing[2]>>

\* C15 (as claimed): a video titled "Sunday Worship" whose resolved time is a
\* Sunday between 10:15 and 11:00 is classified as Worship Services with the
\* proposed title "{service_date} - Worship Service - 9:30 AM".
SundayWorshipAtNineThirty ==
  /\ checked.step = "processed"
  /\ checked.video.name = <<"Sunday", " ", "Worship">>
  /\ Weekday(checked.resolved.dt) = 6
  /\ is_time_in_window(checked.resolved.dt, <<10, 15>>, <<11, 0>>)

C15_SundayWorshipTitle ==
  SundayWorshipAtNineThirty =>
     /\ checked.classification.category_folder_name = "Worship Services"
     /\ checked.classification.new_title =
          <<Strftime(checked.resolved.dt.day), " - ", "Worship", " ", "Service", " - ", "9:30 AM">>

\* C15 (amended): ... with the proposed title
\* "{service_date} - Worship Service - Traditional 9:30 AM": the service type
\* (Traditional unless the title says contemporary) precedes the service time.
C15_SundayWorshipTitleWithType ==
  SundayWorshipAtNineThirty =>
     /\ checked.classification.category_folder_name = "Worship Services"
     /\ checked.classification.new_title =
          <<Strftime(checked.resolved.dt.day), " - ", "Worship", " ", "Service", " - ",
            "Traditional", " ", "9:30 AM">>

\* "Sunday Worship", resolved to Sunday 8 December 10:40, has been processed
\* and renamed.
C15_Witness ==
  /\ SundayWorshipAtNineThirty
  /\ checked.resolved.dt = Instant(8, 10, 40)
  /\ checked.rename = "accepted"

\* C16: when the resolved time is a Sunday before 06:00 and the title contains
\* "worship" or "traditional", the classification uses the day before at the
\* same clock time (day of week Saturday, service_date one day back) and the
\* result is Worship Services with a title dated on that Saturday; in every
\* other case the resolved time is used as it is.
TitleLower(video) == Lower(StripDatePrefix(video.name))

EarlySundayWorship ==
  /\ Weekday(checked.resolved.dt) = 6
  /\ checked.resolved.dt.hour < 6
  /\ (Contains(TitleLower(checked.video), <<"worship">>)
        \/ Contains(TitleLower(checked.video), <<"traditional">>))

C16_MidnightRollover ==
  checked.step = "processed" =>
     IF EarlySundayWorship
       THEN /\ checked.classification.rolled_over
            /\ checked.classification.reference_time = DayBefore(checked.resolved.dt)
            /\ checked.classification.day_of_week = 5
            /\ checked.classification.service_date = checked.resolved.dt.day - 1
            /\ checked.classification.category_folder_name = "Worship Services"
            /\ checked.classification.new_title[1] = Strftime(checked.resolved.dt.day - 1)
       ELSE /\ ~checked.classification.rolled_over
            /\ checked.classification.reference_time = checked.resolved.dt
            /\ checked.classification.service_date = checked.resolved.dt.day

\* C17: when the title carries a Root Class keyword and no Root Class window
\* contains the time on the day used for the classification, or carries a
\* worship keyword (and no Root Class keyword) and no service window does, the
\* video is classified as Weddings and Memorials.
InRootClassWindow(c) ==
  \/ (c.day_of_week = 0 /\ is_time_in_window(c.reference_time, <<19, 0>>, <<21, 0>>))
  \/ (c.day_of_week = 6 /\ is_time_in_window(c.reference_time, <<10, 15>>, <<11, 0>>))

InServiceWindow(c) ==
  \/ (c.day_of_week = 5 /\ is_time_in_window(c.reference_time, <<18, 15>>, <<21, 0>>))
  \/ (c.day_of_week = 6 /\ is_time_in_window(c.reference_time, <<10, 15>>, <<11, 0>>))
  \/ (c.day_of_week = 6 /\ is_time_in_window(c.reference_time, <<11, 45>>, <<13, 30>>))

HasRootKeyword(video) == HasAny(TitleLower(video), ROOT_KEYWORDS)

HasWorshipKeyword(video) == HasAny(TitleLower(video), WORSHIP_KEYWORDS)

C17_KeywordWithoutWindowFallsBack ==
  checked.step = "processed" =>
     /\ (HasRootKeyword(checked.video) /\ ~InRootClassWindow(checked.classification))
          => checked.classification.category_folder_name = "Weddings and Memorials"
     /\ (~HasRootKeyword(checked.video) /\ HasWorshipKeyword(checked.video)
            /\ ~InServiceWindow(checked.classification))
          => checked.classification.category_folder_name = "Weddings and Memorials"

\* C18: a video whose title carries a worship keyword and no Root Class
\* keyword, resolved to a Monday, Tuesday, Wednesday, Thursday or Friday, is
\* classified as Weddings and Memorials with the proposed title
\* "{service_date} - Memorial or Wedding Service", whatever the time of day.
C18_WeekdayWorshipIsWeddingOrMemorial ==
  (/\ checked.step = "processed"
   /\ HasWorshipKeyword(checked.video)
   /\ ~HasRootKeyword(checked.video)
   /\ Weekday(checked.resolved.dt) \in 0..4)
  => /\ checked.classification.category_folder_name = "Weddings and Memorials"
     /\ checked.classification.new_title =
          <<Strftime(checked.resolved.dt.day), " - ", "Memorial", " ", "or", " ", "Wedding",
            " ", "Service">>

\* "Worship Celebration", resolved to Tuesday 3 December, has been processed,
\* renamed and moved.
C18_Witness ==
  /\ checked.step = "processed"
  /\ checked.video.name = <<"Worship", " ", "Celebration">>
  /\ checked.resolved.dt.day = 3
  /\ Weekday(checked.resolved.dt) = 1
  /\ checked.rename = "accepted"
  /\ checked.move = "moved"

\* C19: a classified video that carries its proposed title and is processed
\* again with the same timestamps gets the same category and the same proposed
\* title, so that no rename is issued.
AfterRename(p) == [p.video EXCEPT !.name = p.classification.new_title]

C19_ReclassificationIsIdempotent ==
  (checked.step = "processed" /\ checked.classification.classified) =>
     LET again == process_video(AfterRename(checked), FALSE, "ok", "204")
     IN /\ again.classification.category_folder_name =
             checked.classification.category_folder_name
        /\ again.classification.new_title = checked.classification.new_title
        /\ again.rename = "already_correct"
        /\ ~again.stats.title_updated

\* A video that already carries a dated title, the proposed one, has been
\* processed: no rename, and the move went through.
C19_Witness ==
  /\ checked.step = "processed"
  /\ IsDateChunk(checked.video.name[1])
  /\ checked.classification.category_folder_name = "Worship Services"
  /\ checked.rename = "already_correct"
  /\ checked.move = "moved"

\* C20: in a batch run a failed rename or move does not end the run, and for
\* each processed video title_updated is true only if its rename succeeded,
\* moved is true only if its move succeeded, and the move is attempted
\* whether or not the rename failed.
RenameFailed(p) == p.rename \in {"rejected", "raised"}

C20_RenameAndMoveAreIndependent ==
  /\ pc # "crashed"
  /\ checked.step = "processed" =>
        /\ checked.stats.title_updated => checked.rename = "accepted"
        /\ checked.stats.moved => checked.move = "moved"
        /\ (checked.classification.classified /\ RenameFailed(checked))
             => checked.move # "not_attempted"

\* C21: a processed video for which no classification rule yields a category
\* gets neither a rename call nor a move call, and its stats report
\* title_updated = false and moved = false.
Unclassified(p) == p.step = "processed" /\ p.classification.category_folder_name = None

C21_UnclassifiedHasNoSideEffects ==
  Unclassified(checked) =>
     /\ checked.rename = "not_attempted"
     /\ checked.move = "not_attempted"
     /\ ~checked.stats.title_updated
     /\ ~checked.stats.moved

\* "Staff Meeting" (no keyword of any rule) has been processed while the
\* platform would have accepted a rename and a move, and the counters show one
\* video processed, none updated, none moved.
C21_Witness ==
  /\ Unclassified(checked)
  /\ checked.video.name = <<"Staff", " ", "Meeting">>
  /\ checked.classification.rule = "none"
  /\ counts.processed_count = 1
  /\ counts.updated_count = 0
  /\ counts.moved_count = 0

\* C22: the rules are taken in the order Root Class, Worship Services,
\* Memorial/Wedding, Scott's Classes on the lowercased title without its date
\* prefix, and the category of a processed video is the category of the first
\* rule in this order whose keyword, day and time-window conditions all hold.
RuleOrder == <<"The Root Class", "Worship Services", "Weddings and Memorials", "Scott's Classes">>

RuleHolds(category, video, c) ==
  CASE category = "The Root Class" -> HasRootKeyword(video) /\ InRootClassWindow(c)
    [] category = "Worship Services" -> HasWorshipKeyword(video) /\ InServiceWindow(c)
    [] category = "Weddings and Memorials" ->
         HasAny(TitleLower(video), { <<"memorial">>, <<"wedding">> })
    [] OTHER ->
         \/ Contains(TitleLower(video), <<"scott">>)
         \/ (Contains(TitleLower(video), <<"class">>) /\ ~Contains(TitleLower(video), <<"root">>))

FirstRuleHolding(video, c) ==
  FirstIndex({ i \in 1..Len(RuleOrder) : RuleHolds(RuleOrder[i], video, c) })

C22_FirstMatchingRuleWins ==
  (checked.step = "processed" /\ FirstRuleHolding(checked.video, checked.classification) # 0)
  => checked.classification.category_folder_name =
       RuleOrder[FirstRuleHolding(checked.video, checked.classification)]

\* C23: after the rule evaluation of a processed video, category and title
\* suffix are both set or both unset; the service date is the resolved day, or
\* the day before when the early-Sunday adjustment applies; and when they are
\* set, the suffix is one of the category's suffixes and the proposed title is
\* the service date as YYYY-MM-DD, " - ", and the suffix.
RuleSuffixes(category, video) ==
  CASE category = "The Root Class" ->
         { <<"The", " ", "Root", " ", "Class">>,
           <<"0930", " - ", "The", " ", "Root", " ", "Class">> }
    [] category = "Worship Services" ->
         { <<"Worship", " ", "Service", " - ", "Traditional", " ", "5:30 PM">> }
           \cup { <<"Worship", " ", "Service", " - ", ty, " ", tm>> :
                    ty \in {"Traditional", "Contemporary"}, tm \in {"9:30 AM", "11:00 AM"} }
    [] category = "Weddings and Memorials" ->
         { <<"Memorial", " ", "or", " ", "Wedding", " ", "Service">> }
    [] OTHER -> { StripDatePrefix(video.name) }

ServiceDay(p) == IF EarlySundayWorship THEN p.resolved.dt.day - 1 ELSE p.resolved.dt.day

C23_ClassificationIsNeverPartial ==
  checked.step = "processed" =>
     /\ (checked.classification.category_folder_name = None)
          <=> (checked.classification.final_title_suffix = <<>>)
     /\ checked.classification.service_date = ServiceDay(checked)
     /\ checked.classification.category_folder_name # None =>
          /\ checked.classification.final_title_suffix
               \in RuleSuffixes(checked.classification.category_folder_name, checked.video)
          /\ checked.classification.new_title =
               <<Strftime(ServiceDay(checked)), " - ">> \o checked.classification.final_title_suffix

\* "Scott's Class", resolved to Wednesday 4 December, has been processed: the
\* category is set, the suffix is the title, and the proposed title is dated.
C23_Witness ==
  /\ checked.step = "processed"
  /\ checked.video.name = <<"Scott", "'s", " ", "Class">>
  /\ checked.resolved.dt.day = 4
  /\ checked.classification.category_folder_name = "Scott's Classes"
  /\ checked.classification.new_title = <<"2024-12-04", " - ", "Scott", "'s", " ", "Class">>
  /\ checked.rename = "accepted"

\* C24: for every configured window, is_time_in_window on the time used for
\* the classification of a processed video is true exactly when the minute of
\* the day (60 * hour + minute) lies between the window's start and end minute,
\* both included: true at the start minute and at the end minute, false one
\* minute before the start and one minute after the end.
ConfiguredWindows ==
  { <<SATURDAY_SERVICE_WINDOW[i].start, SATURDAY_SERVICE_WINDOW[i].end>> :
      i \in 1..Len(SATURDAY_SERVICE_WINDOW) }
    \cup { <<SUNDAY_SERVICE_WINDOWS[i].start, SUNDAY_SERVICE_WINDOWS[i].end>> :
             i \in 1..Len(SUNDAY_SERVICE_WINDOWS) }
    \cup { <<ROOT_CLASS_WINDOWS[d].start, ROOT_CLASS_WINDOWS[d].end>> :
             d \in DOMAIN ROOT_CLASS_WINDOWS }

MinuteOfDay(hour, minute) == 60 * hour + minute

ClockAt(minute_of_day) == Instant(1, minute_of_day \div 60, minute_of_day % 60)

InsideExactly(dt, lo, hi, w) ==
  /\ is_time_in_window(dt, w[1], w[2]) <=> MinuteOfDay(dt.hour, dt.minute) \in lo..hi
  /\ is_time_in_window(ClockAt(lo), w[1], w[2])
  /\ is_time_in_window(ClockAt(hi), w[1], w[2])
  /\ ~is_time_in_window(ClockAt(lo - 1), w[1], w[2])
  /\ ~is_time_in_window(ClockAt(hi + 1), w[1], w[2])

C24_WindowIsInclusive ==
  checked.step = "processed" =>
     \A w \in ConfiguredWindows :
        InsideExactly(checked.classification.reference_time,
                      MinuteOfDay(w[1][1], w[1][2]), MinuteOfDay(w[2][1], w[2][2]), w)

\* "Sunday Worship", resolved to Sunday 8 December at 11:00, the end minute of
\* the first Sunday window, has been processed and classified as the 9:30 AM
\* service.
C24_Witness ==
  /\ checked.step = "processed"
  /\ checked.video.name = <<"Sunday", " ", "Worship">>
  /\ checked.classification.reference_time = Instant(8, 11, 0)
  /\ checked.classification.final_title_suffix =
       <<"Worship", " ", "Service", " - ", "Traditional", " ", "9:30 AM">>

\* C25: in every registry reachable through create, register, match-videos and
\* classify, every entry with status archived or classified has a linked video
\* id, and every entry with status scheduled has none.
C25_LinkMatchesStatus ==
  \A e \in Entries(events) :
     /\ e.status \in {"archived", "classified"} => e.archived_video_id # None
     /\ e.status = "scheduled" => e.archived_video_id = None

\* C26: a video of the batch gets a rename or a move call only if it is
\* playable and has no parent folder: with DEBUG_MODE on and off and whatever
\* the platform answers, the loop pass for a video that is not playable or lies
\* in a folder (excluded, destination or other) issues no rename and no move
\* and leaves the updated and moved counters as they are.
InRoot(video) == video.is_playable /\ video.parent_folder = None

NoCalls(p) ==
  \/ p.step \in {"not_playable", "excluded_folder", "destination_folder", "other_folder"}
  \/ (p.step = "debug_only" /\ p.rename = "not_attempted" /\ p.move = "not_attempted")

Untouched(video, cts, r) ==
  /\ NoCalls(r.checked)
  /\ r.checked.video = video
  /\ r.counts.updated_count = cts.updated_count
  /\ r.counts.moved_count = cts.moved_count

C26_OnlyRootVideosAreRenamedOrMoved ==
  /\ (pc = "loop" /\ videos_to_check # <<>> /\ ~InRoot(Head(videos_to_check))) =>
        \A debug_mode \in BOOLEAN, answers \in AnswerInputs :
           Untouched(Head(videos_to_check), counts,
                     check_video(Head(videos_to_check), counts, debug_mode,
                                 answers[1], answers[2]))
  /\ (checked.step \in {"processed", "raised", "debug_only"} /\ ~NoCalls(checked))
        => InRoot(checked.video)

\* With DEBUG_MODE on, a playable video that lies in a destination folder has
\* gone through the loop: shown, counted as processed, not renamed, not moved.
C26_Witness ==
  /\ checked.step = "debug_only"
  /\ checked.video.is_playable
  /\ checked.video.parent_folder = "15749517"
  /\ checked.rename = "not_attempted"
  /\ checked.move = "not_attempted"
  /\ counts.processed_count = 1
  /\ counts.updated_count = 0
  /\ counts.moved_count = 0
====
